---- MODULE Spec2Model ----
(***************************************************************************)
(* Model of the entity-graph widget MarketplaceGraphs                      *)
(* (src/unnamed/part_000): the React state of the component, its event     *)
(* handlers and effects, and the predicates it hands to the renderer.      *)
(*                                                                         *)
(* Object identity matters in the code (activeNode === node, Set.has) and a *)
(* reload builds new records for the same ids.  The code only ever compares *)
(* a held record with a record of the displayed graph, so a reference       *)
(* carries the id and whether it is a record of the displayed graph (cur)   *)
(* or of a graph that has since been replaced.                              *)
(***************************************************************************)
EXTENDS Integers, Sequences, FiniteSets, TLC

\* ------------------------------------------------------------------ bounds
MaxInflight == 2   \* fetches outstanding at the same time
MaxTicks    == 1   \* layout ticks observed after a load
HubDeg      == 7   \* parallel edges of the hub response
MaxValue    == 38  \* largest node value handed to the link distance accessor
MaxLabels   == 11  \* distinct labels handed to the color scale
MaxSide     == 4   \* largest measured width and height of the container
MaxEdges    == 7   \* parallel edges between the two nodes of a generated response
MaxGlyph    == 4   \* largest width of a label per unit of font size

\* ------------------------------------------------------- program constants
NODE_MIN == 6
NODE_MAX == 18
LINK_MIN == 18
LINK_MAX == 36
\* zoom factors in tenths (3 and 1.5) and transition times
ZoomActive == 30
ZoomIdle   == 15
CenterMs   == 400
ZoomMs     == 600
\* first font size and offset of the label loop
FontStart  == 15
FontOffset == 2

\* ------------------------------------------------------------- input data
NoType   == ""          \* properties.entity_type absent (or empty: both falsy)
Fallback == "unknown"   \* formatMessage({id: 'collection.graph.entity.unknown'})

RawNode(id, ty)   == [id |-> id, entity_type |-> ty]
RawEdge(id, s, t) == [id |-> id, source |-> s, target |-> t]

\* the scenario of the specification: three uncategorised nodes, one edge
PlainGraph ==
  [nodes |-> <<RawNode("A", NoType), RawNode("B", NoType), RawNode("C", NoType)>>,
   edges |-> <<RawEdge(1, "A", "B")>>]

\* two declared categories, one uncategorised node, one edge naming no node
TypedGraph ==
  [nodes |-> <<RawNode("A", "person"), RawNode("B", "org"), RawNode("C", NoType)>>,
   edges |-> <<RawEdge(1, "A", "B"), RawEdge(2, "B", "C"), RawEdge(3, "A", "Z")>>]

\* a node pair joined by HubDeg parallel edges and one edge back
HubGraph ==
  [nodes |-> <<RawNode("A", "person"), RawNode("B", "org")>>,
   edges |-> [i \in 1..HubDeg |-> RawEdge(10 + i, "A", "B")] \o <<RawEdge(1, "B", "A")>>]

EmptyGraph == [nodes |-> <<>>, edges |-> <<>>]

\* what the graph endpoint may answer for a collection id
Responses(c) ==
  IF c = "c0" THEN {EmptyGraph, PlainGraph}
  ELSE IF c = "c1" THEN {EmptyGraph, PlainGraph, TypedGraph} ELSE {TypedGraph, HubGraph}

CollectionIds == {"", "c1", "c2"}

\* ------------------------------------------------------------------ state
VARIABLES
  collectionId,    \* prop collectionId
  loading,         \* useState loading
  inflight,        \* collection ids of the fetches awaiting their response
  graphData,       \* useState graphData ({nodes, links} or undefined)
  allEntities,     \* useState allEntities (category groups, in key order)
  activeEntities,  \* useState activeEntities (ActiveCategorySet)
  highlightNodes,  \* the Set held by useState highlightNodes
  highlightLinks,  \* the Set held by useState highlightLinks
  hoverNode,       \* useState hoverNode
  activeNode,      \* useState activeNode
  camera,          \* last centerAt/zoom command given to graphRef
  camCmds,         \* camera command pairs issued by the last step
  ticks,           \* layout ticks since the graph was handed to the engine
  lastEvent,       \* the handler that ran last
  probe            \* the part of the program a specification looks at on its own:
                   \* a pure function's inputs and result, the color scale, the viewport

vars == <<collectionId, loading, inflight, graphData, allEntities, activeEntities,
          highlightNodes, highlightLinks, hoverNode, activeNode, camera, camCmds,
          ticks, lastEvent, probe>>

\* ---------------------------------------------------------------- records
Undefined == [kind |-> "undefined", cur |-> FALSE, id |-> ""]
NodeRef(id) == [kind |-> "node", cur |-> TRUE, id |-> id]
\* an edge endpoint the engine could not resolve stays the raw id string
RawId(id) == [kind |-> "raw", cur |-> FALSE, id |-> id]
LinkRef(id) == [cur |-> TRUE, id |-> id]

\* a held reference once setGraphData has replaced the graph it came from
StaleNode(r) == IF r.kind = "node" THEN [r EXCEPT !.cur = FALSE] ELSE r
StaleLink(r) == [r EXCEPT !.cur = FALSE]

NoGraph == [defined |-> FALSE, nodes |-> <<>>, links |-> <<>>]

\* no pure function is being applied on its own
NoProbe == [kind |-> "none"]

Max2(a, b) == IF a >= b THEN a ELSE b
Min2(a, b) == IF a <= b THEN a ELSE b
Max3(a, b, c) == Max2(Max2(a, b), c)

\* --------------------------------------------------------- GraphDataModel
\* mutant: the source count is left out of the maximum
AugmentNodes_TargetOnly(resp) ==
  [i \in DOMAIN resp.nodes |->
     LET n == resp.nodes[i]
         targetCount == Cardinality({j \in DOMAIN resp.edges : resp.edges[j].target = n.id})
     IN  [id |-> n.id, entity_type |-> n.entity_type,
          value |-> Max2(targetCount, NODE_MIN)]]

\* getGraphData, lines 79-90: the response's nodes with their derived value
AugmentNodes(resp) ==
  [i \in DOMAIN resp.nodes |->
     LET n == resp.nodes[i]
         targetCount == Cardinality({j \in DOMAIN resp.edges : resp.edges[j].target = n.id})
         sourceCount == Cardinality({j \in DOMAIN resp.edges : resp.edges[j].source = n.id})
     IN  [id |-> n.id, entity_type |-> n.entity_type,
          value |-> Max3(targetCount, sourceCount, NODE_MIN)]]

\* the iteratee of _.groupBy, line 95
GroupKey(n) == IF n.entity_type # NoType THEN n.entity_type ELSE Fallback

\* mutant: a key seen again replaces the group's members by the new one
RECURSIVE GroupBy_LastOnly(_)
GroupBy_LastOnly(nodes) ==
  IF nodes = <<>> THEN <<>>
  ELSE LET front == GroupBy_LastOnly(SubSeq(nodes, 1, Len(nodes) - 1))
           n     == nodes[Len(nodes)]
           hit   == {i \in DOMAIN front : front[i].key = GroupKey(n)}
       IN  IF hit = {}
           THEN Append(front, [key |-> GroupKey(n), items |-> <<n>>])
           ELSE [i \in DOMAIN front |->
                   IF i \in hit THEN [front[i] EXCEPT !.items = <<n>>]
                   ELSE front[i]]

\* _.groupBy: groups in first-seen key order, members in arrival order
RECURSIVE GroupBy(_)
GroupBy(nodes) ==
  IF nodes = <<>> THEN <<>>
  ELSE LET front == GroupBy(SubSeq(nodes, 1, Len(nodes) - 1))
           n     == nodes[Len(nodes)]
           hit   == {i \in DOMAIN front : front[i].key = GroupKey(n)}
       IN  IF hit = {}
           THEN Append(front, [key |-> GroupKey(n), items |-> <<n>>])
           ELSE [i \in DOMAIN front |->
                   IF i \in hit THEN [front[i] EXCEPT !.items = Append(@, n)]
                   ELSE front[i]]

\* Object.keys(allEntities)
Keys(groups) == [i \in DOMAIN groups |-> groups[i].key]

\* the elements of an array
SetOf(items) == {items[i] : i \in DOMAIN items}

\* Array.prototype.includes
Includes(items, x) == \E i \in DOMAIN items : items[i] = x

\* ------------------------------------------------------ ForceLayoutEngine
HasNode(g, id) == \E i \in DOMAIN g.nodes : g.nodes[i].id = id
NodeOf(g, id)  == g.nodes[CHOOSE i \in DOMAIN g.nodes : g.nodes[i].id = id]

\* the engine replaces link.source / link.target by the node records they name
\* when graphData is handed to ForceGraph2D; an id naming no node stays a string
Resolve(g, id) == IF HasNode(g, id) THEN NodeRef(id) ELSE RawId(id)
SourceOf(g, l) == Resolve(g, l.source)
TargetOf(g, l) == Resolve(g, l.target)

\* node.x / node.y as written by the simulation: a function of the graph, the
\* node and the number of ticks since the graph was loaded
Position(g, id, t) ==
  LET i == CHOOSE k \in DOMAIN g.nodes : g.nodes[k].id = id
  IN  [x |-> 10 * i + t, y |-> t - 10 * i]

\* ------------------------------------------------------ EntityFilterIndex
\* mutant: a node without a category is filtered under the fallback label
NodeVisibility_NoShortcut(n, active) ==
  Includes(active, IF n.entity_type # NoType THEN n.entity_type ELSE Fallback)

\* nodeVisibility, lines 291-296
NodeVisibility(n, active) ==
  n.entity_type = NoType \/ Includes(active, n.entity_type)

\* mutant: an endpoint without a category is looked up under the fallback label
EndpointType_Fallback(g, ref) ==
  IF ref.kind = "node" /\ NodeOf(g, ref.id).entity_type # NoType
  THEN NodeOf(g, ref.id).entity_type
  ELSE Fallback

\* link.source?.properties?.entity_type || ''
EndpointType(g, ref) ==
  IF ref.kind = "node" THEN NodeOf(g, ref.id).entity_type ELSE NoType

\* mutant: one active endpoint is enough
LinkVisibility_Either(g, l, active) ==
  \/ Includes(active, EndpointType(g, Resolve(g, l.source)))
  \/ Includes(active, EndpointType(g, Resolve(g, l.target)))

\* linkVisibility, lines 402-409
LinkVisibility(g, l, active) ==
  LET sourceEntityType == EndpointType(g, SourceOf(g, l))
      targetEntityType == EndpointType(g, TargetOf(g, l))
  IN  Includes(active, sourceEntityType) /\ Includes(active, targetEntityType)

\* the nodes and links the renderer draws, which are the ones the pointer can hit
VisibleNodes == {i \in DOMAIN graphData.nodes : NodeVisibility(graphData.nodes[i], activeEntities)}
VisibleLinks == {i \in DOMAIN graphData.links : LinkVisibility(graphData, graphData.links[i], activeEntities)}

\* --------------------------------------------------- HighlightStateMachine
\* link.source.id === id || link.target.id === id  (a raw string has no .id)
Incident(g, l, id) ==
  \/ (SourceOf(g, l).kind = "node" /\ SourceOf(g, l).id = id)
  \/ (TargetOf(g, l).kind = "node" /\ TargetOf(g, l).id = id)

\* graphData?.links.filter(...)
NodeLinks(g, id) ==
  IF g.defined THEN {i \in DOMAIN g.links : Incident(g, g.links[i], id)} ELSE {}

OriginCamera == [x |-> 0, y |-> 0, centerMs |-> CenterMs, zoom |-> ZoomIdle, zoomMs |-> ZoomMs]

\* mutant: the activation branch zooms to the idle factor
ActiveNodeEffect_IdleZoom(a, g, t) ==
  IF a # Undefined
  THEN LET nodeLinks == NodeLinks(g, a.id)
       IN  [nodes |-> {Resolve(g, g.links[i].source) : i \in nodeLinks}
                        \cup {Resolve(g, g.links[i].target) : i \in nodeLinks} \cup {a},
            links |-> {LinkRef(g.links[i].id) : i \in nodeLinks},
            cam   |-> [x |-> Position(g, a.id, t).x, y |-> Position(g, a.id, t).y,
                       centerMs |-> CenterMs, zoom |-> ZoomIdle, zoomMs |-> ZoomMs]]
  ELSE [nodes |-> {}, links |-> {}, cam |-> OriginCamera]

\* useEffect[activeNode], lines 143-166, run with the new activeNode a
ActiveNodeEffect(a, g, t) ==
  IF a # Undefined
  THEN LET nodeLinks == NodeLinks(g, a.id)
       IN  [nodes |-> {SourceOf(g, g.links[i]) : i \in nodeLinks}
                        \cup {TargetOf(g, g.links[i]) : i \in nodeLinks} \cup {a},
            links |-> {LinkRef(g.links[i].id) : i \in nodeLinks},
            cam   |-> [x |-> Position(g, a.id, t).x, y |-> Position(g, a.id, t).y,
                       centerMs |-> CenterMs, zoom |-> ZoomActive, zoomMs |-> ZoomMs]]
  ELSE [nodes |-> {}, links |-> {}, cam |-> OriginCamera]

\* setActiveNode(a) followed by the effect, which React runs only when the
\* value changed (Object.is)
SetActiveNode(a) ==
  /\ activeNode' = a
  /\ IF a # activeNode
     THEN LET e == ActiveNodeEffect(a, graphData, ticks)
          IN  /\ highlightNodes' = e.nodes
              /\ highlightLinks' = e.links
              /\ camera' = e.cam
              /\ camCmds' = 1
     ELSE /\ UNCHANGED <<highlightNodes, highlightLinks, camera>>
          /\ camCmds' = 0

\* ------------------------------------------------------------ data loading
\* mutant: getGraphData has no early return for an empty collection id
GetGraphData_NoGuard(c) ==
  /\ loading' = TRUE
  /\ inflight' = Append(inflight, c)

\* getGraphData up to the await, lines 68-72, with the collectionId c of its
\* closure
GetGraphData(c) ==
  IF c = ""
  THEN UNCHANGED <<loading, inflight>>
  ELSE /\ loading' = TRUE
       /\ inflight' = Append(inflight, c)

StartFetch == GetGraphData(collectionId)

\* an endpoint as the distance accessor finds it: a node record with its value,
\* or the raw id of an endpoint the engine did not resolve (no value)
Endpoint(resolved, value) == [resolved |-> resolved, value |-> value]

\* link.source?.value || NODE_MIN, line 176
ValueOr(e) == IF e.resolved /\ e.value # 0 THEN e.value ELSE NODE_MIN

\* mutant: the accessor without the Math.min
LinkDistance_NoCap(source, target) == Max3(ValueOr(source), ValueOr(target), LINK_MIN)

\* the accessor given to d3.forceLink().distance, lines 174-180
LinkDistance(source, target) ==
  Min2(Max3(ValueOr(source), ValueOr(target), LINK_MIN), LINK_MAX)

\* d3.schemeCategory10, the range of the scale at line 27
SchemeCategory10 ==
  <<"#1f77b4", "#ff7f0e", "#2ca02c", "#d62728", "#9467bd",
    "#8c564b", "#e377c2", "#7f7f7f", "#bcbd22", "#17becf">>

\* d3.scaleOrdinal with an implicit domain: a value not seen before is pushed
\* on the domain; the result is range[index % range.length]
ScaleDomain(domain, d) == IF Includes(domain, d) THEN domain ELSE Append(domain, d)
ScaleIndex(domain, d) == CHOOSE i \in DOMAIN ScaleDomain(domain, d) : ScaleDomain(domain, d)[i] = d

\* mutant: the range is indexed by the size of the domain
ScaleColor_BySize(domain, d) ==
  SchemeCategory10[((Len(ScaleDomain(domain, d)) - 1) % Len(SchemeCategory10)) + 1]

\* color(d), line 27
ScaleColor(domain, d) ==
  SchemeCategory10[((ScaleIndex(domain, d) - 1) % Len(SchemeCategory10)) + 1]

\* mutant: the effect has no early return
SeedActiveEntities_Always(active, groups) == Keys(groups)

\* useEffect[allEntities], lines 129-132, run with the new groups
SeedActiveEntities(active, groups) ==
  IF Len(active) # 0 THEN active ELSE Keys(groups)

RemoveAt(s, i) == SubSeq(s, 1, i - 1) \o SubSeq(s, i + 1, Len(s))

\* the state after the first render and its effects: the category seed effect,
\* the activeNode effect (camera to the origin) and the first getGraphData()
Mounted(c) ==
  /\ collectionId = c
  /\ loading = (collectionId # "")
  /\ inflight = IF collectionId # "" THEN <<collectionId>> ELSE <<>>
  /\ graphData = NoGraph
  /\ allEntities = <<>>
  /\ activeEntities = <<>>
  /\ highlightNodes = {}
  /\ highlightLinks = {}
  /\ hoverNode = Undefined
  /\ activeNode = Undefined
  /\ camera = OriginCamera
  /\ camCmds = 1
  /\ ticks = 0
  /\ lastEvent = "mount"

InitWidget == \E c \in CollectionIds : Mounted(c)

Init == InitWidget /\ probe = NoProbe

\* the refresh button, lines 238-245: a button showing loading takes no click
Refresh ==
  /\ ~loading
  /\ Len(inflight) < MaxInflight
  /\ StartFetch
  /\ camCmds' = 0
  /\ lastEvent' = "refresh"
  /\ UNCHANGED probe
  /\ UNCHANGED <<collectionId, graphData, allEntities, activeEntities, highlightNodes,
                 highlightLinks, hoverNode, activeNode, camera, ticks>>

\* the collectionId prop changes: getGraphData is rebuilt and
\* useEffect[getGraphData], lines 168-186, calls it
ChangeCollection(c) ==
  /\ c # collectionId
  /\ Len(inflight) < MaxInflight
  /\ collectionId' = c
  /\ GetGraphData(c)
  /\ camCmds' = 0
  /\ lastEvent' = "collection"
  /\ UNCHANGED probe
  /\ UNCHANGED <<graphData, allEntities, activeEntities, highlightNodes,
                 highlightLinks, hoverNode, activeNode, camera, ticks>>

\* mutant: a response is applied only when it belongs to the fetch started last
FetchSucceed_LatestOnly(i, resp) ==
  /\ IF i = Len(inflight)
     THEN LET nodes == AugmentNodes(resp)
              groups == GroupBy(nodes)
          IN  /\ graphData' = [defined |-> TRUE, nodes |-> nodes, links |-> resp.edges]
              /\ allEntities' = groups
              /\ activeEntities' = SeedActiveEntities(activeEntities, groups)
              /\ hoverNode' = StaleNode(hoverNode)
              /\ activeNode' = StaleNode(activeNode)
              /\ highlightNodes' = {StaleNode(r) : r \in highlightNodes}
              /\ highlightLinks' = {StaleLink(r) : r \in highlightLinks}
              /\ ticks' = 0
     ELSE UNCHANGED <<graphData, allEntities, activeEntities, hoverNode, activeNode,
                      highlightNodes, highlightLinks, ticks>>
  /\ loading' = FALSE
  /\ inflight' = RemoveAt(inflight, i)
  /\ camCmds' = 0
  /\ lastEvent' = "fetchOk"
  /\ UNCHANGED probe
  /\ UNCHANGED <<collectionId, camera>>

\* the response of fetch i arrives, lines 76-95 and 98-100, and the render that
\* follows hands the new graph to the engine and runs useEffect[allEntities]
FetchSucceed(i, resp) ==
  /\ LET nodes == AugmentNodes(resp)
         groups == GroupBy(nodes)
     IN  /\ graphData' = [defined |-> TRUE, nodes |-> nodes, links |-> resp.edges]
         /\ allEntities' = groups
         /\ activeEntities' = SeedActiveEntities(activeEntities, groups)
  /\ loading' = FALSE
  /\ inflight' = RemoveAt(inflight, i)
  /\ hoverNode' = StaleNode(hoverNode)
  /\ activeNode' = StaleNode(activeNode)
  /\ highlightNodes' = {StaleNode(r) : r \in highlightNodes}
  /\ highlightLinks' = {StaleLink(r) : r \in highlightLinks}
  /\ ticks' = 0
  /\ camCmds' = 0
  /\ lastEvent' = "fetchOk"
  /\ UNCHANGED probe
  /\ UNCHANGED <<collectionId, camera>>

\* mutant: setLoading(false) sits at the end of the try block, not in finally
FetchFail_KeepsLoading(i) ==
  /\ inflight' = RemoveAt(inflight, i)
  /\ camCmds' = 0
  /\ lastEvent' = "fetchFail"
  /\ UNCHANGED probe
  /\ UNCHANGED <<collectionId, loading, graphData, allEntities, activeEntities, highlightNodes,
                 highlightLinks, hoverNode, activeNode, camera, ticks>>

\* mutant: the catch branch closes the detail panel
FetchFail_ClosesDetail(i) ==
  /\ loading' = FALSE
  /\ inflight' = RemoveAt(inflight, i)
  /\ hoverNode' = Undefined
  /\ activeNode' = Undefined
  /\ camCmds' = 0
  /\ lastEvent' = "fetchFail"
  /\ UNCHANGED probe
  /\ UNCHANGED <<collectionId, graphData, allEntities, activeEntities, highlightNodes,
                 highlightLinks, camera, ticks>>

\* mutant: the catch branch drops the displayed graph
FetchFail_DropsGraph(i) ==
  /\ loading' = FALSE
  /\ inflight' = RemoveAt(inflight, i)
  /\ graphData' = NoGraph
  /\ allEntities' = <<>>
  /\ camCmds' = 0
  /\ lastEvent' = "fetchFail"
  /\ UNCHANGED probe
  /\ UNCHANGED <<collectionId, activeEntities, highlightNodes,
                 highlightLinks, hoverNode, activeNode, camera, ticks>>

\* fetch i fails, lines 96-100
FetchFail(i) ==
  /\ loading' = FALSE
  /\ inflight' = RemoveAt(inflight, i)
  /\ camCmds' = 0
  /\ lastEvent' = "fetchFail"
  /\ UNCHANGED probe
  /\ UNCHANGED <<collectionId, graphData, allEntities, activeEntities, highlightNodes,
                 highlightLinks, hoverNode, activeNode, camera, ticks>>

\* one tick of the simulation moves the nodes
Tick ==
  /\ graphData.defined
  /\ ticks < MaxTicks
  /\ ticks' = ticks + 1
  /\ camCmds' = 0
  /\ lastEvent' = "tick"
  /\ UNCHANGED probe
  /\ UNCHANGED <<collectionId, loading, inflight, graphData, allEntities, activeEntities,
                 highlightNodes, highlightLinks, hoverNode, activeNode, camera>>

\* ------------------------------------------------------------- user input
\* handleCloseDetail, lines 103-108 (the sets are cleared again by the effect)
HandleCloseDetail ==
  /\ hoverNode' = Undefined
  /\ IF activeNode # Undefined
     THEN SetActiveNode(Undefined)
     ELSE /\ activeNode' = Undefined
          /\ highlightNodes' = {}
          /\ highlightLinks' = {}
          /\ camCmds' = 0
          /\ UNCHANGED camera

\* onNodeClick, lines 299-305, on a node the renderer drew
NodeClick(i) ==
  /\ i \in VisibleNodes
  /\ LET node == NodeRef(graphData.nodes[i].id)
     IN  IF activeNode = node
         THEN HandleCloseDetail
         ELSE SetActiveNode(node) /\ UNCHANGED hoverNode
  /\ lastEvent' = "nodeClick"
  /\ UNCHANGED probe
  /\ UNCHANGED <<collectionId, loading, inflight, graphData, allEntities, activeEntities,
                 ticks>>

\* the detail panel's onClose; the panel is open only while a node is active
CloseDetail ==
  /\ activeNode # Undefined
  /\ HandleCloseDetail
  /\ lastEvent' = "close"
  /\ UNCHANGED probe
  /\ UNCHANGED <<collectionId, loading, inflight, graphData, allEntities, activeEntities,
                 ticks>>

\* mutant: find returns the first node whatever the id
FindNode_First(g, id) ==
  IF g.defined /\ g.nodes # <<>> THEN NodeRef(g.nodes[1].id) ELSE Undefined

\* graphData?.nodes.find(nod => nod.id === id)
FindNode(g, id) == IF g.defined /\ HasNode(g, id) THEN NodeRef(id) ELSE Undefined

\* the values the search control can pass, lines 216-231: the id of an option
\* (the members of the category groups) or, while it shows a value, undefined
\* (allowClear), written "" here
SelectValues ==
  UNION {{allEntities[k].items[j].id : j \in DOMAIN allEntities[k].items} :
           k \in DOMAIN allEntities}
    \cup (IF activeNode # Undefined THEN {""} ELSE {})

\* handleSelectNode, lines 110-116
SelectNode(id) ==
  /\ SetActiveNode(FindNode(graphData, id))
  /\ lastEvent' = "select"
  /\ UNCHANGED probe
  /\ UNCHANGED <<collectionId, loading, inflight, graphData, allEntities, activeEntities,
                 hoverNode, ticks>>

\* mutant: only the links leaving the node are collected
HoverNodeLinks_SourceOnly(g, node) ==
  IF node # Undefined
  THEN {LinkRef(g.links[i].id) : i \in {j \in NodeLinks(g, node.id) :
                                          SourceOf(g, g.links[j]).id = node.id}}
  ELSE {}

\* the hover handlers' shared early return and clearing, lines 307-309, 323-325
HoverNodeLinks(g, node) ==
  IF node # Undefined
  THEN {LinkRef(g.links[i].id) : i \in NodeLinks(g, node.id)}
  ELSE {}

\* mutant: the handler has no early return while a node is active
OnNodeHover_NoGuard(node) ==
  /\ highlightNodes' = {}
  /\ highlightLinks' = HoverNodeLinks(graphData, node)
  /\ hoverNode' = node

\* onNodeHover, lines 306-321: node is the node under the pointer or null
OnNodeHover(node) ==
  IF activeNode # Undefined
  THEN UNCHANGED <<highlightNodes, highlightLinks, hoverNode>>
  ELSE /\ highlightNodes' = {}
       /\ highlightLinks' = HoverNodeLinks(graphData, node)
       /\ hoverNode' = node

\* the pointer enters a node the renderer drew, or leaves the node it was on
HoveredNodes == {NodeRef(graphData.nodes[i].id) : i \in VisibleNodes} \cup {Undefined}

NodeHover(node) ==
  /\ graphData.defined
  /\ OnNodeHover(node)
  /\ camCmds' = 0
  /\ lastEvent' = "nodeHover"
  /\ UNCHANGED probe
  /\ UNCHANGED <<collectionId, loading, inflight, graphData, allEntities, activeEntities,
                 activeNode, camera, ticks>>

\* mutant: the handler adds the link without clearing the set
OnLinkHover_NoClear(links) ==
  IF activeNode # Undefined
  THEN UNCHANGED <<highlightNodes, highlightLinks>>
  ELSE /\ highlightNodes' = {}
       /\ highlightLinks' = highlightLinks \cup links

\* onLinkHover, lines 322-331: links is {the link under the pointer} or {}
OnLinkHover(links) ==
  IF activeNode # Undefined
  THEN UNCHANGED <<highlightNodes, highlightLinks>>
  ELSE /\ highlightNodes' = {}
       /\ highlightLinks' = links

\* the pointer enters a link the renderer drew, or leaves the link it was on
HoveredLinks == {{LinkRef(graphData.links[i].id)} : i \in VisibleLinks} \cup {{}}

LinkHover(links) ==
  /\ graphData.defined
  /\ OnLinkHover(links)
  /\ camCmds' = 0
  /\ lastEvent' = "linkHover"
  /\ UNCHANGED probe
  /\ UNCHANGED <<collectionId, loading, inflight, graphData, allEntities, activeEntities,
                 hoverNode, activeNode, camera, ticks>>

\* _.reject(items, item => item === key)
Reject(items, key) == SelectSeq(items, LAMBDA x : x # key)

\* _.uniq(items.concat(key))
UniqConcat(items, key) == IF Includes(items, key) THEN items ELSE Append(items, key)

\* mutant: the tags behave as a radio group
ToggleEntities_Radio(items, key, isActive) ==
  IF isActive THEN <<>> ELSE <<key>>

\* the updater of the Tag's onClick, lines 269-277
ToggleEntities(items, key, isActive) ==
  IF isActive THEN Reject(items, key) ELSE UniqConcat(items, key)

\* a category tag is clicked, lines 262-282
TagClick(k) ==
  /\ k \in DOMAIN allEntities
  /\ LET key == allEntities[k].key
         isActive == Includes(activeEntities, key)
     IN  activeEntities' = ToggleEntities(activeEntities, key, isActive)
  /\ camCmds' = 0
  /\ lastEvent' = "tagClick"
  /\ UNCHANGED probe
  /\ UNCHANGED <<collectionId, loading, inflight, graphData, allEntities, highlightNodes,
                 highlightLinks, hoverNode, activeNode, camera, ticks>>

\* the widget on the collection it was mounted with
Next ==
  \/ Refresh
  \/ \E i \in DOMAIN inflight : \E resp \in Responses(inflight[i]) : FetchSucceed(i, resp)
  \/ \E i \in DOMAIN inflight : FetchFail(i)
  \/ Tick
  \/ \E i \in DOMAIN graphData.nodes : NodeClick(i)
  \/ CloseDetail
  \/ \E id \in SelectValues : SelectNode(id)
  \/ \E node \in HoveredNodes : NodeHover(node)
  \/ \E links \in HoveredLinks : LinkHover(links)
  \/ \E k \in DOMAIN allEntities : TagClick(k)

Spec == Init /\ [][Next]_vars

\* a fetch in flight resolves, one way or the other
ResolveFetch ==
  \/ \E i \in DOMAIN inflight : \E resp \in Responses(inflight[i]) : FetchSucceed(i, resp)
  \/ \E i \in DOMAIN inflight : FetchFail(i)

\* the widget while its collectionId prop changes, so that fetches overlap
NextCollection ==
  \/ Refresh
  \/ \E c \in CollectionIds : ChangeCollection(c)
  \/ \E i \in DOMAIN inflight : \E resp \in Responses(inflight[i]) : FetchSucceed(i, resp)
  \/ \E i \in DOMAIN inflight : FetchFail(i)
  \/ \E i \in DOMAIN graphData.nodes : NodeClick(i)
  \/ \E k \in DOMAIN allEntities : TagClick(k)

SpecCollection == Init /\ [][NextCollection]_vars

\* the fetches alone, every fetch in flight resolving sooner or later (the
\* network answers or times out; nothing else in the widget delays a resolution)
NextFetch ==
  \/ Refresh
  \/ \E c \in CollectionIds : ChangeCollection(c)
  \/ \E i \in DOMAIN inflight : \E resp \in Responses(inflight[i]) : FetchSucceed(i, resp)
  \/ \E i \in DOMAIN inflight : FetchFail(i)

SpecFetchFair == Init /\ [][NextFetch]_vars /\ WF_vars(ResolveFetch)

\* ---------------------------------------------------------- CanvasRenderer
Themes == {"dark", "light"}

\* the scale after color() was called with each of labels in turn
RECURSIVE ScaleDomainAll(_, _)
ScaleDomainAll(domain, labels) ==
  IF labels = <<>> THEN domain
  ELSE ScaleDomainAll(ScaleDomain(domain, labels[1]), SubSeq(labels, 2, Len(labels)))

\* the labels the React render hands to color(): the group header of every
\* category in the search control (line 221), then the tag of every active
\* category (line 267)
RenderLabels ==
  Keys(allEntities) \o SelectSeq(Keys(allEntities), LAMBDA key : Includes(activeEntities, key))

\* node.properties?.entity_type || '', line 341
NodeColorLabel(n) == IF n.entity_type # NoType THEN n.entity_type ELSE ""

\* the labels a canvas frame hands to color(): one per drawn node, in order
RECURSIVE FrameLabels(_)
FrameLabels(k) ==
  IF k = 0 THEN <<>>
  ELSE IF k \in VisibleNodes
       THEN Append(FrameLabels(k - 1), NodeColorLabel(graphData.nodes[k]))
       ELSE FrameLabels(k - 1)

\* Color(c).grayscale().darken(0.3) / .lighten(0.6), lines 342-345
ColorSecondary(c, themeName) ==
  c \o (IF themeName = "dark" THEN ".grayscale().darken(0.3)" ELSE ".grayscale().lighten(0.6)")

\* size, lines 336-337
NodeSize(n) ==
  Min2(IF n.value # 0 THEN n.value ELSE NODE_MIN, NODE_MAX)
    + (IF NodeRef(n.id) = hoverNode THEN 1 ELSE 0)

\* ctx.fillStyle, lines 346-349
NodeFill(n, colorNormal, themeName) ==
  IF highlightNodes = {} \/ NodeRef(n.id) \in highlightNodes
  THEN colorNormal
  ELSE ColorSecondary(colorNormal, themeName)

\* nodeCanvasObject, lines 332-377, for a node the engine draws
NodeCanvasObject(n, domain, themeName) ==
  [size   |-> NodeSize(n),
   normal |-> ScaleColor(domain, NodeColorLabel(n)),
   fill   |-> NodeFill(n, ScaleColor(domain, NodeColorLabel(n)), themeName)]

\* mutant: the highlighted link has the same particle width as the others
LinkStyle_NoParticles(l, themeName) ==
  LET has == LinkRef(l.id) \in highlightLinks
  IN  [color |-> IF themeName = "dark"
                 THEN (IF has THEN "#EEE" ELSE "#55595F")
                 ELSE (IF has THEN "#999" ELSE "#DDD"),
       width |-> IF has THEN 2 ELSE 1,
       particleWidth |-> 0]

\* linkColor, linkWidth, linkDirectionalParticleWidth, lines 388-400
LinkStyle(l, themeName) ==
  LET has == LinkRef(l.id) \in highlightLinks
  IN  [color |-> IF themeName = "dark"
                 THEN (IF has THEN "#EEE" ELSE "#55595F")
                 ELSE (IF has THEN "#999" ELSE "#DDD"),
       width |-> IF has THEN 2 ELSE 1,
       particleWidth |-> IF has THEN 3 ELSE 0]

\* nothing painted yet; the scale of line 27 has an empty domain
NoPaint(themeName) ==
  [kind |-> "paint", themeName |-> themeName, frame |-> FALSE, domain |-> <<>>]

\* the React render that follows a handler, and (frame) the canvas frame after
\* it: both call color(), which may extend the domain of the scale
Paint(frame) ==
  /\ probe.kind = "paint"
  /\ lastEvent # "paint"
  /\ LET rendered == ScaleDomainAll(probe.domain, RenderLabels)
     IN  probe' = [probe EXCEPT
                    !.frame  = frame,
                    !.domain = IF frame
                               THEN ScaleDomainAll(rendered, FrameLabels(Len(graphData.nodes)))
                               ELSE rendered]
  /\ camCmds' = 0
  /\ lastEvent' = "paint"
  /\ UNCHANGED <<collectionId, loading, inflight, graphData, allEntities, activeEntities,
                 highlightNodes, highlightLinks, hoverNode, activeNode, camera, ticks>>

\* what the last paint put on screen: the color of the group header and of the
\* tag of group k, node i as drawn, link j as styled
Painted == probe.kind = "paint" /\ lastEvent = "paint"
HeaderColor(k) == ScaleColor(probe.domain, allEntities[k].key)
TagColor(k) ==
  IF Includes(activeEntities, allEntities[k].key)
  THEN ScaleColor(probe.domain, allEntities[k].key)
  ELSE "undefined"
DrawnNode(i) == NodeCanvasObject(graphData.nodes[i], probe.domain, probe.themeName)
DrawnLink(j) == LinkStyle(graphData.links[j], probe.themeName)

\* themeName comes from the global model, line 36, and stays as it is
InitRender ==
  /\ InitWidget
  /\ collectionId = "c1"
  /\ \E themeName \in Themes : probe = NoPaint(themeName)

\* the widget with every handler followed by its render
NextRender ==
  \/ \E frame \in BOOLEAN : Paint(frame)
  \/ lastEvent = "paint" /\ Refresh
  \/ lastEvent = "paint" /\
       \E i \in DOMAIN inflight : \E resp \in Responses(inflight[i]) : FetchSucceed(i, resp)
  \/ lastEvent = "paint" /\ \E i \in DOMAIN graphData.nodes : NodeClick(i)
  \/ lastEvent = "paint" /\ \E node \in HoveredNodes : NodeHover(node)
  \/ lastEvent = "paint" /\ \E links \in HoveredLinks : LinkHover(links)
  \/ lastEvent = "paint" /\ \E k \in DOMAIN allEntities : TagClick(k)

SpecRender == InitRender /\ [][NextRender]_vars

\* ------------------------------------------- pure functions on their own
widgetVars == <<collectionId, loading, inflight, graphData, allEntities, activeEntities,
                highlightNodes, highlightLinks, hoverNode, activeNode, camera, camCmds,
                ticks, lastEvent>>

\* node values are at least NODE_MIN (line 89); an unresolved endpoint has none
Endpoints == {Endpoint(TRUE, v) : v \in NODE_MIN..MaxValue} \cup {Endpoint(FALSE, 0)}

InitDistance ==
  /\ InitWidget
  /\ collectionId = ""
  /\ \E s \in Endpoints : \E t \in Endpoints :
        probe = [kind |-> "distance", source |-> s, target |-> t, done |-> FALSE, result |-> 0]

\* the engine calls the accessor for a link
ApplyLinkDistance ==
  /\ probe.kind = "distance"
  /\ ~probe.done
  /\ probe' = [probe EXCEPT !.done = TRUE,
                            !.result = LinkDistance(probe.source, probe.target)]
  /\ UNCHANGED widgetVars

SpecDistance == InitDistance /\ [][ApplyLinkDistance]_vars

\* the scale of line 27 is one object for the whole process: its domain is empty
\* when the module is loaded; first records the color each label got when it
\* was first asked for
InitColor ==
  /\ InitWidget
  /\ collectionId = ""
  /\ probe = [kind |-> "color", domain |-> <<>>, first |-> <<>>, label |-> 0, result |-> ""]

\* the labels a caller may ask for next: any label seen so far, or as a new one
\* the smallest or the largest label not seen yet
Labels == 1..MaxLabels
Unseen == {l \in Labels : ~Includes(probe.domain, l)}
NextLabels ==
  SetOf(probe.domain)
    \cup {l \in Unseen : (\A m \in Unseen : l <= m) \/ (\A m \in Unseen : l >= m)}

\* a renderer or a tag calls color(l)
AskColor(l) ==
  /\ probe.kind = "color"
  /\ probe' = [probe EXCEPT
                 !.domain = ScaleDomain(probe.domain, l),
                 !.first  = IF Includes(probe.domain, l) THEN @
                            ELSE Append(@, ScaleColor(probe.domain, l)),
                 !.label  = l,
                 !.result = ScaleColor(probe.domain, l)]
  /\ UNCHANGED widgetVars

NextColor == \E l \in NextLabels : AskColor(l)

SpecColor == InitColor /\ [][NextColor]_vars

\* --------------------------------------------- edges that name no node
\* responses with nodes A and B, m edges A->B, r edges B->A, and at most one
\* edge with an endpoint that names no node
Malformed ==
  {<<>>, <<RawEdge(0, "A", "Z")>>, <<RawEdge(0, "Z", "B")>>, <<RawEdge(0, "Y", "Z")>>}

EdgeResponse(m, r, bad) ==
  [nodes |-> <<RawNode("A", "person"), RawNode("B", "org")>>,
   edges |-> [i \in 1..m |-> RawEdge(i, "A", "B")]
               \o [i \in 1..r |-> RawEdge(100 + i, "B", "A")] \o bad]

\* the response without the edges that name no node
WellFormed(resp) ==
  [nodes |-> resp.nodes,
   edges |-> SelectSeq(resp.edges,
                       LAMBDA e : /\ \E i \in DOMAIN resp.nodes : resp.nodes[i].id = e.source
                                  /\ \E i \in DOMAIN resp.nodes : resp.nodes[i].id = e.target)]

\* what lines 76-93 make of a response
Loaded(resp) == [defined |-> TRUE, nodes |-> AugmentNodes(resp), links |-> resp.edges]

InitEdges ==
  /\ InitWidget
  /\ collectionId = ""
  /\ \E m \in 0..MaxEdges : \E r \in 0..2 : \E bad \in Malformed :
        probe = [kind |-> "edges", resp |-> EdgeResponse(m, r, bad), done |-> FALSE,
                 with |-> NoGraph, without |-> NoGraph]

\* the response is loaded, and so is the same response without its malformed edge
LoadBoth ==
  /\ probe.kind = "edges"
  /\ ~probe.done
  /\ probe' = [probe EXCEPT !.done = TRUE,
                            !.with = Loaded(probe.resp),
                            !.without = Loaded(WellFormed(probe.resp))]
  /\ UNCHANGED widgetVars

SpecEdges == InitEdges /\ [][LoadBoth]_vars

\* ------------------------------------------------------------ node label
\* ctx.measureText(node.id).width at font size s, for a label whose width is
\* glyph units per unit of font size
MeasureText(glyph, s) == glyph * s

\* the do-while of lines 366-370, entered with fontSize: the body shrinks the
\* size and measures, then the condition is tested
RECURSIVE LabelLoop(_, _, _)
LabelLoop(fontSize, glyph, size) ==
  LET next == fontSize - 1
  IN  IF MeasureText(glyph, next) - FontOffset > size /\ next > 0
      THEN LabelLoop(next, glyph, size)
      ELSE next

\* a label of any width on a node of any drawn radius
InitLabel ==
  /\ InitWidget
  /\ collectionId = ""
  /\ \E glyph \in 0..MaxGlyph : \E size \in NODE_MIN..(NODE_MAX + 1) :
        probe = [kind |-> "label", glyph |-> glyph, size |-> size, done |-> FALSE,
                 fontSize |-> FontStart]

\* nodeCanvasObject draws the label, lines 361-376
DrawLabel ==
  /\ probe.kind = "label"
  /\ ~probe.done
  /\ probe' = [probe EXCEPT !.done = TRUE,
                            !.fontSize = LabelLoop(FontStart, probe.glyph, probe.size)]
  /\ UNCHANGED widgetVars

SpecLabel == InitLabel /\ [][DrawLabel]_vars

\* ------------------------------------------------------ ViewportController
\* container.offsetWidth / offsetHeight as the browser reports them
Sizes == [width : 0..MaxSide, height : 0..MaxSide]

\* mutant: the border is not taken off
HandleResizeContainer_NoBorder(measured) ==
  [width |-> IF measured.width # 0 THEN measured.width ELSE 0,
   height |-> IF measured.height # 0 THEN measured.height ELSE 0]

\* handleResizeContainer, lines 118-127: the dimensions it sets
HandleResizeContainer(measured) ==
  [width  |-> (IF measured.width # 0 THEN measured.width ELSE 0) - 2,
   height |-> (IF measured.height # 0 THEN measured.height ELSE 0) - 2]

\* position of the Card, line 193
CardPosition(fullscreen) == IF fullscreen THEN "fixed" ELSE "relative"

\* after mount: both resize effects (lines 134-141) have measured the container
InitViewport ==
  /\ InitWidget
  /\ collectionId = ""
  /\ \E measured \in Sizes :
        probe = [kind |-> "viewport", event |-> "mount", fullscreen |-> FALSE,
                 container |-> measured,
                 measured |-> measured, dimensions |-> HandleResizeContainer(measured)]

\* the fullscreen button, lines 246-252, and useEffect[fullscreen], line 134,
\* which measures the container in its new layout
ToggleFullscreen(measured) ==
  /\ probe.kind = "viewport"
  /\ probe' = [probe EXCEPT !.event = "fullscreen",
                            !.fullscreen = ~probe.fullscreen,
                            !.container = measured,
                            !.measured = measured,
                            !.dimensions = HandleResizeContainer(measured)]
  /\ UNCHANGED widgetVars

\* the window's resize event, listener of line 138
WindowResize(measured) ==
  /\ probe.kind = "viewport"
  /\ probe' = [probe EXCEPT !.event = "resize",
                            !.container = measured,
                            !.measured = measured,
                            !.dimensions = HandleResizeContainer(measured)]
  /\ UNCHANGED widgetVars

NextViewport ==
  \/ \E measured \in Sizes : ToggleFullscreen(measured)
  \/ \E measured \in Sizes : WindowResize(measured)

SpecViewport == InitViewport /\ [][NextViewport]_vars

\* the container as laid out when the page around the widget changes: a square
\* of one of two sides
Layouts == {[width |-> w, height |-> w] : w \in {MaxSide - 1, MaxSide}}

\* mutant: a ResizeObserver on the container calls handleResizeContainer
ContainerChange_Observed(size) ==
  /\ probe.kind = "viewport"
  /\ size # probe.container
  /\ probe' = [probe EXCEPT !.event = "container",
                            !.container = size,
                            !.measured = size,
                            !.dimensions = HandleResizeContainer(size)]
  /\ UNCHANGED widgetVars

\* the container gets another size from a cause that is neither a window
\* resize nor a fullscreen toggle: no listener of the component runs
ContainerChange(size) ==
  /\ probe.kind = "viewport"
  /\ size # probe.container
  /\ probe' = [probe EXCEPT !.event = "container", !.container = size]
  /\ UNCHANGED widgetVars

\* the whole widget, handlers and viewport, on a collection c0 of small graphs
InitWhole ==
  /\ Mounted("c0")
  /\ \E measured \in Layouts :
        probe = [kind |-> "viewport", event |-> "mount", fullscreen |-> FALSE,
                 container |-> measured,
                 measured |-> measured, dimensions |-> HandleResizeContainer(measured)]

NextWhole ==
  \/ \E measured \in Layouts : ToggleFullscreen(measured)
  \/ \E measured \in Layouts : WindowResize(measured)
  \/ \E size \in Layouts : ContainerChange(size)
  \/ Refresh
  \/ \E i \in DOMAIN inflight : \E resp \in Responses(inflight[i]) : FetchSucceed(i, resp)
  \/ \E i \in DOMAIN inflight : FetchFail(i)
  \/ Tick
  \/ \E i \in DOMAIN graphData.nodes : NodeClick(i)
  \/ \E id \in SelectValues : SelectNode(id)
  \/ \E node \in HoveredNodes : NodeHover(node)
  \/ \E k \in DOMAIN allEntities : TagClick(k)

SpecWhole == InitWhole /\ [][NextWhole]_vars

\* ================================================================= claims
Ids(refs) == {r.id : r \in refs}
HoverEvents == {"nodeHover", "linkHover"}
Idle == /\ activeNode = Undefined
        /\ highlightNodes = {}
        /\ highlightLinks = {}

\* the edges of the displayed graph that name id as source or target
IncidentEdges(id) ==
  {i \in DOMAIN graphData.links :
     graphData.links[i].source = id \/ graphData.links[i].target = id}

\* C1: whenever a node N is active, highlightedNodes is exactly N and the
\* endpoints of the displayed graph's edges incident to N, and highlightedLinks
\* is exactly those edges (compared by id).
C1_ActiveHighlightExact ==
  activeNode # Undefined =>
    /\ Ids(highlightLinks) = {graphData.links[i].id : i \in IncidentEdges(activeNode.id)}
    /\ Ids(highlightNodes) =
         {activeNode.id}
           \cup {graphData.links[i].source : i \in IncidentEdges(activeNode.id)}
           \cup {graphData.links[i].target : i \in IncidentEdges(activeNode.id)}

\* C2: a hover event leaves highlightedNodes empty when no node is active, and
\* changes none of hoverNode, activeNode, highlightedNodes, highlightedLinks
\* while a node is active.
C2_HoverNeverHighlightsNodes ==
  [][lastEvent' \in HoverEvents =>
       IF activeNode # Undefined
       THEN UNCHANGED <<hoverNode, activeNode, highlightNodes, highlightLinks>>
       ELSE highlightNodes' = {} /\ activeNode' = Undefined]_vars

\* a hover event arrived while a node was active and its highlight stayed
C2_Witness ==
  /\ lastEvent \in HoverEvents
  /\ activeNode # Undefined
  /\ highlightNodes # {}
  /\ highlightLinks # {}

\* C3: while n is active, a click on the node with n's id, or the detail
\* panel's close action, leads to Idle with the camera sent to the origin at
\* zoom 1.5.
C3_ReclickOrCloseGoesIdle ==
  [][(/\ activeNode # Undefined
      /\ \/ CloseDetail
         \/ \E i \in DOMAIN graphData.nodes :
              graphData.nodes[i].id = activeNode.id /\ NodeClick(i))
       => (Idle' /\ camera' = OriginCamera /\ camCmds' = 1)]_vars

\* C4: a change of activeNode issues exactly one camera command pair, to the
\* node's position at that moment with zoom 3 or to the origin with zoom 1.5;
\* hover, category toggle, reload and tick steps issue none.
C4_CameraFollowsActiveNode ==
  [][/\ (lastEvent' \in {"nodeClick", "close", "select"} /\ activeNode' # activeNode) =>
          /\ camCmds' = 1
          /\ camera' =
               IF activeNode' # Undefined
               THEN [x |-> Position(graphData, activeNode'.id, ticks).x,
                     y |-> Position(graphData, activeNode'.id, ticks).y,
                     centerMs |-> CenterMs, zoom |-> ZoomActive, zoomMs |-> ZoomMs]
               ELSE [x |-> 0, y |-> 0, centerMs |-> CenterMs, zoom |-> ZoomIdle,
                     zoomMs |-> ZoomMs]
     /\ (lastEvent' \in HoverEvents \cup {"tagClick", "refresh", "fetchOk", "fetchFail", "tick"}) =>
          (camCmds' = 0 /\ camera' = camera)]_vars

\* a node was activated after the layout had moved it
C4_Witness ==
  /\ lastEvent \in {"nodeClick", "select"}
  /\ activeNode # Undefined /\ activeNode.cur
  /\ ticks > 0
  /\ camCmds = 1
  /\ camera.zoom = ZoomActive
  /\ camera.x = Position(graphData, activeNode.id, ticks).x

\* C5: every node of the displayed graph has value = max(edges targeting it,
\* edges leaving it, 6), so value >= 6.
C5_NodeValue ==
  \A i \in DOMAIN graphData.nodes :
    LET id == graphData.nodes[i].id
        indeg  == Cardinality({j \in DOMAIN graphData.links : graphData.links[j].target = id})
        outdeg == Cardinality({j \in DOMAIN graphData.links : graphData.links[j].source = id})
    IN  /\ graphData.nodes[i].value >= indeg
        /\ graphData.nodes[i].value >= outdeg
        /\ graphData.nodes[i].value >= 6
        /\ graphData.nodes[i].value \in {indeg, outdeg, 6}

\* a load produced a node whose out-degree, above 6 and above its in-degree,
\* is its value, next to the minimum value elsewhere
C5_Witness ==
  /\ lastEvent = "fetchOk"
  /\ \E i \in DOMAIN graphData.nodes :
       /\ graphData.nodes[i].value > 6
       /\ Cardinality({j \in DOMAIN graphData.links :
                         graphData.links[j].target = graphData.nodes[i].id})
            < graphData.nodes[i].value

\* the nodes and links of the displayed graph grouped under / touching a key
NodesUnder(key) == {i \in DOMAIN graphData.nodes : GroupKey(graphData.nodes[i]) = key}
LinksTouching(key) ==
  {j \in DOMAIN graphData.links :
     \E i \in NodesUnder(key) :
       graphData.nodes[i].id \in {graphData.links[j].source, graphData.links[j].target}}
TagKeys == {allEntities[k].key : k \in DOMAIN allEntities}
Active(key) == \E i \in DOMAIN activeEntities : activeEntities[i] = key

\* a tag click leaves the visibility of the nodes of every other group as it was
TagClickFrame ==
  lastEvent' = "tagClick" =>
    \A k \in DOMAIN allEntities :
      Active(allEntities[k].key) = Active(allEntities[k].key)' =>
        \A i \in NodesUnder(allEntities[k].key) : (i \in VisibleNodes) = (i \in VisibleNodes')

\* C6 as stated: for every tag key c, the fallback label included, c inactive
\* means every node under c and every edge touching one is invisible, and
\* deactivating c changes the visibility of no node of another category.
C6_DeactivatedCategoryHidden ==
  /\ [](\A c \in TagKeys : ~Active(c) =>
          /\ NodesUnder(c) \cap VisibleNodes = {}
          /\ LinksTouching(c) \cap VisibleLinks = {})
  /\ [][TagClickFrame]_vars

\* C6 amended: the same for every tag key, except that nodes without a declared
\* category stay visible (only nodes with a declared category are hidden by
\* their tag); every edge touching a node under an inactive key is invisible.
C6_DeclaredCategoryHidden ==
  /\ [](\A c \in TagKeys : ~Active(c) =>
          /\ \A i \in NodesUnder(c) :
               (i \in VisibleNodes) = (graphData.nodes[i].entity_type = NoType)
          /\ LinksTouching(c) \cap VisibleLinks = {})
  /\ [][TagClickFrame]_vars

\* a tag was switched off: its node is hidden and so is its edge to a node whose
\* own category is still active, while the other nodes are still drawn
C6_Witness ==
  /\ lastEvent = "tagClick"
  /\ \E c \in TagKeys \ {Fallback} :
       /\ ~Active(c)
       /\ NodesUnder(c) # {}
       /\ \E j \in LinksTouching(c) :
            \E i \in VisibleNodes :
              /\ GroupKey(graphData.nodes[i]) \notin {c, Fallback}
              /\ graphData.nodes[i].id \in {graphData.links[j].source, graphData.links[j].target}

\* C7: a reload that completes while ActiveCategorySet is non-empty leaves it
\* unchanged, also when the new graph brings a category not known before.
C7_ReloadKeepsNonEmptyActiveSet ==
  [][(lastEvent' = "fetchOk" /\ Len(activeEntities) > 0) =>
       activeEntities' = activeEntities]_vars

\* a reload has brought a tag that is not active next to the active ones
C7_Witness ==
  /\ lastEvent = "fetchOk"
  /\ activeEntities = <<Fallback>>
  /\ \E c \in TagKeys : c # Fallback /\ ~Active(c)

\* C8: ActiveCategorySet is seeded once, when the category set first becomes
\* non-empty; a reload arriving when categories are already known never sets
\* it, whatever it contains then.
C8_SeededExactlyOnce ==
  [][(lastEvent' = "fetchOk" /\ Len(allEntities) > 0) =>
       activeEntities' = activeEntities]_vars

\* the category label an endpoint id is looked up under: the declared category
\* of the node with that id, the empty label when it declares none or is missing
LabelOrEmpty(id) ==
  IF \E i \in DOMAIN graphData.nodes :
       graphData.nodes[i].id = id /\ graphData.nodes[i].entity_type # NoType
  THEN (graphData.nodes[CHOOSE i \in DOMAIN graphData.nodes : graphData.nodes[i].id = id]).entity_type
  ELSE ""

\* C9: a node without a declared category is in the fallback group and always
\* visible; a node with a declared category is visible iff the category is
\* active.
C9_NodeVisibility ==
  \A i \in DOMAIN graphData.nodes :
    LET n == graphData.nodes[i]
    IN  IF n.entity_type = NoType
        THEN /\ \E k \in DOMAIN allEntities :
                  /\ allEntities[k].key = Fallback
                  /\ \E j \in DOMAIN allEntities[k].items : allEntities[k].items[j] = n
             /\ i \in VisibleNodes
        ELSE (i \in VisibleNodes) = Active(n.entity_type)

\* the fallback tag is off and a declared category is off: the uncategorised
\* node is drawn, the declared one is not
C9_Witness ==
  /\ lastEvent = "tagClick"
  /\ ~Active(Fallback)
  /\ \E i \in VisibleNodes : graphData.nodes[i].entity_type = NoType
  /\ \E i \in DOMAIN graphData.nodes :
       graphData.nodes[i].entity_type # NoType /\ i \notin VisibleNodes
  /\ \E i \in VisibleNodes : graphData.nodes[i].entity_type # NoType

\* C10: an edge is visible iff the labels of both endpoints are active, an
\* endpoint without a declared category being looked up under the empty label;
\* so an edge with such an endpoint is not visible even when that node is.
C10_EdgeVisibility ==
  \A j \in DOMAIN graphData.links :
    LET l == graphData.links[j]
    IN  /\ (j \in VisibleLinks) = (Active(LabelOrEmpty(l.source)) /\ Active(LabelOrEmpty(l.target)))
        /\ ("" \in {LabelOrEmpty(l.source), LabelOrEmpty(l.target)}) => j \notin VisibleLinks

\* one edge between active categories is drawn while an edge to a drawn,
\* uncategorised node is not, although every tag is active
C10_Witness ==
  /\ \A c \in TagKeys : Active(c)
  /\ VisibleLinks # {}
  /\ \E j \in DOMAIN graphData.links :
       /\ j \notin VisibleLinks
       /\ \E i \in VisibleNodes :
            /\ graphData.nodes[i].entity_type = NoType
            /\ graphData.nodes[i].id = graphData.links[j].target
       /\ Active(LabelOrEmpty(graphData.links[j].source))

\* the set of active labels after the tags of c and then d were clicked on items
ToggledTwice(items, c, d) ==
  SetOf(ToggleEntities(ToggleEntities(items, c, Includes(items, c)), d,
                       Includes(ToggleEntities(items, c, Includes(items, c)), d)))

\* C11: a tag click flips the membership of its label in ActiveCategorySet and
\* of no other label; clicking the same tag twice restores the set, and clicks
\* on two different tags commute.
C11_ToggleFlipsOne ==
  /\ [][\A k \in DOMAIN allEntities :
          TagClick(k) =>
            /\ Active(allEntities[k].key)' # Active(allEntities[k].key)
            /\ \A c \in (TagKeys \cup SetOf(activeEntities) \cup SetOf(activeEntities'))
                          \ {allEntities[k].key} :
                 Active(c)' = Active(c)]_vars
  /\ [](\A c \in TagKeys : \A d \in TagKeys \ {c} :
          /\ ToggledTwice(activeEntities, c, c) = SetOf(activeEntities)
          /\ ToggledTwice(activeEntities, c, d) = ToggledTwice(activeEntities, d, c))

\* a tag was switched off while two other labels stayed active
C11_Witness ==
  /\ lastEvent = "tagClick"
  /\ Len(activeEntities) >= 2
  /\ \E c \in TagKeys : ~Active(c)

\* C12: a failed fetch leaves the displayed graph, the category groups and
\* ActiveCategorySet as they were and sets loading to false.
C12_FetchFailureKeepsState ==
  [][lastEvent' = "fetchFail" =>
       /\ UNCHANGED <<graphData, allEntities, activeEntities>>
       /\ loading' = FALSE]_vars

\* a refresh of a loaded graph has failed
C12_Witness ==
  /\ lastEvent = "fetchFail"
  /\ graphData.defined
  /\ Len(allEntities) > 0
  /\ Len(activeEntities) > 0
  /\ ~loading

\* what the widget displays is exactly the response resp: its nodes in arrival
\* order, its edges, and the groups of its nodes
ShowsResponse(resp) ==
  /\ graphData.defined
  /\ Len(graphData.nodes) = Len(resp.nodes)
  /\ \A i \in DOMAIN resp.nodes :
        /\ graphData.nodes[i].id = resp.nodes[i].id
        /\ graphData.nodes[i].entity_type = resp.nodes[i].entity_type
  /\ graphData.links = resp.edges
  /\ TagKeys = {IF n.entity_type = NoType THEN Fallback ELSE n.entity_type :
                 n \in SetOf(resp.nodes)}
  /\ \A k \in DOMAIN allEntities :
        \A j \in DOMAIN allEntities[k].items :
          \E i \in DOMAIN resp.nodes : allEntities[k].items[j].id = resp.nodes[i].id

FetchStarts == {"refresh", "collection"}
FetchEnds   == {"fetchOk", "fetchFail"}

\* C13: fetches may overlap and none is cancelled: a fetch leaves the set of
\* fetches in flight only by resolving, and starting a fetch keeps the earlier ones.
\* Every successful resolution, whatever its position in the start order, makes
\* its own response the displayed graph and groups, and nothing but a successful
\* resolution changes them: the success that resolved last wins.
C13_LastResolvedWins ==
  [][/\ \A i \in DOMAIN inflight : \A resp \in Responses(inflight[i]) :
          FetchSucceed(i, resp) => ShowsResponse(resp)'
     /\ lastEvent' # "fetchOk" => UNCHANGED <<graphData, allEntities>>
     /\ lastEvent' \in FetchStarts =>
          /\ Len(inflight') >= Len(inflight)
          /\ SubSeq(inflight', 1, Len(inflight)) = inflight
     /\ lastEvent' \in FetchEnds => Len(inflight') = Len(inflight) - 1
     /\ lastEvent' \notin (FetchStarts \cup FetchEnds) => inflight' = inflight]_vars

\* the fetch of c1 was started before the one of c2 and resolved after it: its
\* response (PlainGraph comes from c1 only) is displayed while c2 is selected
C13_Witness ==
  /\ collectionId = "c2"
  /\ inflight = <<>>
  /\ lastEvent = "fetchOk"
  /\ ShowsResponse(PlainGraph)

\* C14: loading is true whenever at least one fetch is in flight.
C14_LoadingWhileInFlight == inflight # <<>> => loading

\* C15: every resolution, success or failure, clears loading; once false it
\* turns true only by the start of a fetch; and when every fetch in flight
\* resolves, loading becomes false.
C15_LoadingCleared ==
  /\ [][lastEvent' \in FetchEnds => loading' = FALSE]_vars
  /\ [][(~loading /\ loading') =>
          /\ lastEvent' \in FetchStarts
          /\ Len(inflight') = Len(inflight) + 1]_vars
  /\ [](loading => inflight # <<>>)
  /\ (loading ~> ~loading)

\* a failure just cleared loading while another fetch is still in flight
C15_Witness == lastEvent = "fetchFail" /\ ~loading /\ inflight # <<>>

\* C16: with an empty collection id a refresh or a mount starts no fetch and
\* changes nothing of loading, the fetches in flight, the graph, the groups and
\* the active categories.
C16_EmptyCollectionNoFetch ==
  [][(lastEvent' \in FetchStarts /\ collectionId' = "") =>
       UNCHANGED <<loading, inflight, graphData, allEntities, activeEntities>>]_vars

\* refresh was clicked with no collection selected, a graph being displayed
C16_Witness == lastEvent = "refresh" /\ collectionId = "" /\ graphData.defined /\ inflight = <<>>

\* the highlight sets derived from a mode and the displayed graph, by id
ActivationLinks(id) == {graphData.links[i].id : i \in IncidentEdges(id)}
ActivationNodes(id) ==
  {id} \cup {graphData.links[i].source : i \in IncidentEdges(id)}
       \cup {graphData.links[i].target : i \in IncidentEdges(id)}

\* C17: in every reachable state the highlight sets are derived from the mode
\* and the displayed graph only: they hold elements of the displayed graph and
\* nothing of a replaced one; no node is highlighted unless a node is active;
\* the node hover handler leaves the edges incident to the hovered node (none
\* when the pointer left); Active(n) gives the activation sets; a reload included.
C17_HighlightDerivedFromMode ==
  /\ \A r \in highlightLinks : r.cur
  /\ \A r \in highlightNodes : r.kind = "node" => r.cur
  /\ activeNode = Undefined =>
        /\ highlightNodes = {}
        /\ lastEvent = "nodeHover" =>
              Ids(highlightLinks) =
                IF hoverNode = Undefined THEN {} ELSE ActivationLinks(hoverNode.id)
  /\ activeNode # Undefined =>
        /\ Ids(highlightLinks) = ActivationLinks(activeNode.id)
        /\ Ids(highlightNodes) = ActivationNodes(activeNode.id)

\* the position of a displayed node in arrival order
ArrivalIndex(n) == CHOOSE i \in DOMAIN graphData.nodes : graphData.nodes[i] = n

\* the places (group, position) at which node n is listed in the groups
PlacesOf(n) ==
  {<<k, j>> \in (DOMAIN allEntities) \X (1..Len(graphData.nodes)) :
     j \in DOMAIN allEntities[k].items /\ allEntities[k].items[j] = n}

\* the sum of the counts the tags show, item.length at line 278
RECURSIVE TagCountSum(_)
TagCountSum(groups) ==
  IF groups = <<>> THEN 0
  ELSE Len(groups[Len(groups)].items) + TagCountSum(SubSeq(groups, 1, Len(groups) - 1))

\* C18: a successful fetch leaves exactly its response displayed, graph and
\* groups together; and in every state the groups partition the displayed
\* nodes: group keys are distinct, every node is listed exactly once, under its
\* entity_type or the fallback label, the members of a group stand in arrival
\* order, and the tag counts sum to the number of nodes.
C18_GroupsPartitionNodes ==
  /\ [][\A i \in DOMAIN inflight : \A resp \in Responses(inflight[i]) :
          FetchSucceed(i, resp) =>
            /\ ShowsResponse(resp)'
            /\ TagCountSum(allEntities') = Len(resp.nodes)]_vars
  /\ [](/\ \A k1 \in DOMAIN allEntities : \A k2 \in DOMAIN allEntities :
             allEntities[k1].key = allEntities[k2].key => k1 = k2
         /\ \A i \in DOMAIN graphData.nodes :
             LET n == graphData.nodes[i]
             IN  /\ Cardinality(PlacesOf(n)) = 1
                 /\ \A pl \in PlacesOf(n) :
                       allEntities[pl[1]].key =
                         IF n.entity_type = NoType THEN Fallback ELSE n.entity_type
         /\ \A k \in DOMAIN allEntities :
             /\ allEntities[k].items # <<>>
             /\ \A j \in DOMAIN allEntities[k].items :
                   /\ allEntities[k].items[j] \in SetOf(graphData.nodes)
                   /\ \A j2 \in DOMAIN allEntities[k].items :
                         j < j2 => ArrivalIndex(allEntities[k].items[j])
                                     < ArrivalIndex(allEntities[k].items[j2])
         /\ TagCountSum(allEntities) = Len(graphData.nodes))

\* a reload replaced a graph of several categories by one whose three nodes all
\* fall under the fallback label
C18_Witness ==
  /\ lastEvent = "fetchOk"
  /\ ShowsResponse(PlainGraph)
  /\ Len(allEntities) = 1
  /\ Len(allEntities[1].items) = 3
  /\ Len(activeEntities) >= 2

Clamp(x, lo, hi) == IF x < lo THEN lo ELSE IF x > hi THEN hi ELSE x
MaxOf(S) == CHOOSE m \in S : \A y \in S : y <= m

\* C19: for a link whose two endpoints are resolved nodes the distance is
\* clamp(max(source.value, target.value, 18), 18, 36): an integer in 18..36,
\* and 18 whenever both values are at most 18.
C19_LinkDistanceClamped ==
  (probe.kind = "distance" /\ probe.done /\ probe.source.resolved /\ probe.target.resolved) =>
    /\ probe.result = Clamp(MaxOf({probe.source.value, probe.target.value, 18}), 18, 36)
    /\ probe.result \in 18..36
    /\ (probe.source.value <= 18 /\ probe.target.value <= 18) => probe.result = 18

\* the distance of a link from a node above the upper limit to a small one
C19_Witness ==
  /\ probe.kind = "distance" /\ probe.done
  /\ probe.source.resolved /\ probe.source.value > 36
  /\ probe.target.resolved /\ probe.target.value < 18
  /\ probe.result = 36

\* the position at which a label was first seen
SeenAt(l) == CHOOSE k \in DOMAIN probe.domain : probe.domain[k] = l

\* C20: the color of a label is the one it got when first seen, whatever was
\* asked in between; distinct labels among the first 10 seen have distinct
\* colors; the k-th distinct label seen has palette entry (k-1) mod 10.
C20_ColorStable ==
  (probe.kind = "color" /\ probe.domain # <<>>) =>
    /\ probe.result = probe.first[SeenAt(probe.label)]
    /\ \A k \in DOMAIN probe.domain :
          probe.first[k] = SchemeCategory10[((k - 1) % 10) + 1]
    /\ \A k1 \in DOMAIN probe.domain : \A k2 \in DOMAIN probe.domain :
          (k1 <= 10 /\ k2 <= 10 /\ k1 # k2) => probe.first[k1] # probe.first[k2]
    /\ \A l \in SetOf(probe.domain) :
          ScaleColor(probe.domain, l) = probe.first[SeenAt(l)]

\* more labels than palette entries were seen, and the first label seen was
\* asked again after that
C20_Witness ==
  /\ probe.kind = "color"
  /\ Len(probe.domain) > 10
  /\ probe.label = probe.domain[1]
  /\ probe.result = SchemeCategory10[1]

\* the groups that list the node drawn as i
GroupsOf(i) ==
  {k \in DOMAIN allEntities : graphData.nodes[i] \in SetOf(allEntities[k].items)}

\* C21: the normal fill color of every drawn node is the color shown by the
\* search control's group header of the node's category group, and by the
\* group's legend tag when the tag shows a color; the fallback group included.
C21_FillMatchesLegend ==
  (Painted /\ probe.frame) =>
    \A i \in VisibleNodes : \A k \in GroupsOf(i) :
      /\ DrawnNode(i).normal = HeaderColor(k)
      /\ Active(allEntities[k].key) => DrawnNode(i).normal = TagColor(k)

\* the nodes of the displayed graph drawn one unit larger than min(value, 18)
Enlarged ==
  {graphData.nodes[i].id : i \in {j \in DOMAIN graphData.nodes :
     NodeSize(graphData.nodes[j]) = Clamp(graphData.nodes[j].value, 0, 18) + 1}}

\* C22: every node is drawn at radius min(value, 18), or one more, an integer
\* in 6..19; and a node is drawn at the enlarged radius only while the pointer
\* is on it: once the pointer has moved to node (or to no node), no other node
\* is drawn enlarged.
C22_RadiusAndPointer ==
  /\ [](\A i \in DOMAIN graphData.nodes :
         /\ NodeSize(graphData.nodes[i]) \in 6..19
         /\ NodeSize(graphData.nodes[i]) - Clamp(graphData.nodes[i].value, 0, 18) \in {0, 1})
  /\ [][\A node \in HoveredNodes :
          NodeHover(node) => Enlarged' \subseteq {node.id}]_vars

\* node i was filled with the desaturated variant of its color
Desaturated(i) == DrawnNode(i).fill # DrawnNode(i).normal

\* C23: a drawn node is desaturated iff highlightedNodes is non-empty and the
\* node is not in it; so with no active node every node has its normal color,
\* and in Active(n) exactly the nodes outside n and its neighbours are desaturated.
C23_DesaturatedOutsideHighlight ==
  (Painted /\ probe.frame) =>
    \A i \in VisibleNodes :
      /\ Desaturated(i) <=>
            (highlightNodes # {} /\ NodeRef(graphData.nodes[i].id) \notin highlightNodes)
      /\ activeNode = Undefined => ~Desaturated(i)
      /\ activeNode # Undefined =>
            (Desaturated(i) <=> graphData.nodes[i].id \notin ActivationNodes(activeNode.id))

\* C24: after mount, a fullscreen toggle and a window resize the dimensions are
\* the container's width and height as measured at that moment, minus 2 each;
\* a fullscreen toggle flips the flag (in-flow <-> overlay) and nothing else
\* changes it, so two toggles restore it.
C24_ViewportFollowsContainer ==
  /\ [](probe.kind = "viewport" =>
          /\ probe.dimensions.width = probe.measured.width - 2
          /\ probe.dimensions.height = probe.measured.height - 2)
  /\ [][IF probe'.event = "fullscreen" /\ probe' # probe
        THEN /\ probe'.fullscreen = ~probe.fullscreen
             /\ CardPosition(probe'.fullscreen) # CardPosition(probe.fullscreen)
        ELSE probe'.fullscreen = probe.fullscreen]_vars

\* the second toggle brought the widget back in flow, the container then
\* measuring 3 by 0
C24_Witness ==
  /\ probe.kind = "viewport"
  /\ probe.event = "fullscreen"
  /\ ~probe.fullscreen
  /\ probe.dimensions = [width |-> 1, height |-> -2]

\* C25: with no active node, the pointer entering node n makes n the hovered
\* node and highlightedLinks exactly the edges of the displayed graph incident
\* to n, highlightedNodes empty; the pointer leaving clears the hovered node
\* and leaves highlightedLinks empty.
C25_NodeHoverTransition ==
  [][\A node \in HoveredNodes :
       (NodeHover(node) /\ activeNode = Undefined) =>
         /\ hoverNode' = node
         /\ highlightNodes' = {}
         /\ highlightLinks' =
              IF node = Undefined THEN {}
              ELSE {LinkRef(graphData.links[i].id) : i \in IncidentEdges(node.id)}]_vars

\* the pointer is on B, a node with an edge coming in and an edge going out
C25_Witness ==
  /\ lastEvent = "nodeHover"
  /\ activeNode = Undefined
  /\ hoverNode = NodeRef("B")
  /\ Ids(highlightLinks) = {1, 2}

\* C26: the mode is one of Idle, Hovered(n), Active(n): in no state is there
\* both a hovered node and an active node.
C26_ModeExclusive == ~(hoverNode # Undefined /\ activeNode # Undefined)

\* C27: choosing id in the search control (the control reports a choice only
\* when its value changes) makes the node of the displayed graph with that id
\* the active node, with the highlight sets and the camera command a click on
\* it gives; clearing the control, or an id naming no displayed node, gives no
\* active node, empty highlight sets and the camera sent to the origin at 1.5.
C27_SelectActivates ==
  [][\A id \in SelectValues :
       (SelectNode(id) /\ id # activeNode.id) =>
         IF \E i \in DOMAIN graphData.nodes : graphData.nodes[i].id = id
         THEN /\ activeNode' = NodeRef(id)
              /\ highlightLinks' = {LinkRef(graphData.links[i].id) : i \in IncidentEdges(id)}
              /\ Ids(highlightNodes') = ActivationNodes(id)
              /\ \A r \in highlightNodes' : r.kind = "node" => r.cur
              /\ camCmds' = 1
              /\ camera' = [x |-> Position(graphData, id, ticks).x,
                            y |-> Position(graphData, id, ticks).y,
                            centerMs |-> 400, zoom |-> 30, zoomMs |-> 600]
         ELSE /\ activeNode' = Undefined
              /\ highlightLinks' = {} /\ highlightNodes' = {}
              /\ camCmds' = 1
              /\ camera' = [x |-> 0, y |-> 0, centerMs |-> 400, zoom |-> 15, zoomMs |-> 600]]_vars

\* node C was chosen in the search control: its neighbour B is highlighted
C27_Witness ==
  /\ lastEvent = "select"
  /\ activeNode = NodeRef("C")
  /\ NodeRef("B") \in highlightNodes
  /\ Ids(highlightLinks) = {2}
  /\ camCmds = 1

\* C28: with no active node, the pointer entering link l makes highlightedLinks
\* exactly {l} and highlightedNodes empty, and the pointer leaving a link makes
\* both empty; link hover never changes the hovered node or the active node.
C28_LinkHoverTransition ==
  [][\A links \in HoveredLinks :
       LinkHover(links) =>
         /\ activeNode = Undefined => (highlightLinks' = links /\ highlightNodes' = {})
         /\ hoverNode' = hoverNode
         /\ activeNode' = activeNode]_vars

\* the pointer is on link 12, one of the parallel links of the hub response
C28_Witness ==
  /\ lastEvent = "linkHover"
  /\ activeNode = Undefined
  /\ highlightLinks = {LinkRef(12)}
  /\ highlightNodes = {}

\* every value ActiveCategorySet can take over the labels of the responses
ActiveSets ==
  UNION {[1..n -> {"person", "org", Fallback}] : n \in 0..3}

\* link l of graph g has an endpoint that names no node of g
NamesNoNode(g, l) == ~HasNode(g, l.source) \/ ~HasNode(g, l.target)

\* C29: an edge naming a missing node is visible under no ActiveCategorySet,
\* and the nodes and the well-formed edges have the value, the visibility and
\* the incident well-formed links they have when the response lacks that edge.
C29_MalformedEdgeHarmless ==
  (probe.kind = "edges" /\ probe.done) =>
    LET g == probe.with
        h == probe.without
    IN  /\ \A j \in DOMAIN g.links : \A active \in ActiveSets :
              NamesNoNode(g, g.links[j]) => ~LinkVisibility(g, g.links[j], active)
        /\ \A j \in DOMAIN h.links : \A active \in ActiveSets :
              LinkVisibility(g, h.links[j], active) = LinkVisibility(h, h.links[j], active)
        /\ \A i \in DOMAIN g.nodes :
              /\ {g.links[j].id : j \in {x \in NodeLinks(g, g.nodes[i].id) :
                                           ~NamesNoNode(g, g.links[x])}}
                   = {h.links[j].id : j \in NodeLinks(h, h.nodes[i].id)}
              /\ g.nodes[i].value = h.nodes[i].value

\* link j of the displayed graph is a member of highlightedLinks
InHighlightLinks(j) ==
  \E r \in highlightLinks : r.cur /\ r.id = graphData.links[j].id

FittingSizes == {s \in 0..15 : probe.glyph * s - 2 <= probe.size}

\* C31: the label loop ends with a size in 0..15, the largest size from 15
\* down at which measured width - 2 <= radius, or 0 when there is none; a
\* label that fits at 15 is drawn at 15.
C31_LargestFittingFont ==
  (probe.kind = "label" /\ probe.done) =>
    /\ probe.fontSize \in 0..15
    /\ probe.fontSize = IF FittingSizes = {} THEN 0 ELSE MaxOf(FittingSizes)

WidgetEvents ==
  {"nodeHover", "linkHover", "nodeClick", "close", "select", "tagClick", "refresh",
   "fetchOk", "fetchFail", "tick"}

\* C32: the dimensions change only by a fullscreen toggle or a window resize
\* (and are set at mount): a change of the container's size from another
\* cause and every handler of the widget leave them as they are, so they may
\* differ from the container's size minus 2.
C32_DimensionsChangeOnlyOnResize ==
  [][/\ probe'.dimensions # probe.dimensions =>
          (probe'.event \in {"fullscreen", "resize"} /\ UNCHANGED widgetVars)
     /\ (probe'.event = "container" /\ probe'.container # probe.container) =>
          probe'.dimensions = probe.dimensions
     /\ (lastEvent' \in WidgetEvents /\ widgetVars' # widgetVars) =>
          probe'.dimensions = probe.dimensions]_vars

\* the container changed size unobserved, then a tag was clicked: the
\* dimensions still are those of the last measurement
C32_Witness ==
  /\ probe.kind = "viewport"
  /\ probe.event = "container"
  /\ lastEvent = "tagClick"
  /\ probe.dimensions.width # probe.container.width - 2
  /\ probe.dimensions = HandleResizeContainer(probe.measured)

\* what the claim calls highlight state and camera target
ModeIds == <<hoverNode.kind, hoverNode.id, activeNode.kind, activeNode.id>>

\* C33: a fetch resolving, with a response or an error, changes neither the
\* mode (the ids of the hovered and the active node) nor the viewport nor the
\* camera; a fullscreen toggle, a window resize and a category toggle change
\* none of the displayed graph and its node values, the mode, the highlight
\* sets and the camera.
C33_ReloadAndViewportIndependent ==
  [][/\ \A i \in DOMAIN inflight :
          (FetchFail(i) \/ \E resp \in Responses(inflight[i]) : FetchSucceed(i, resp)) =>
            /\ ModeIds' = ModeIds
            /\ probe' = probe
            /\ camera' = camera /\ camCmds' = 0
     /\ ((\E k \in DOMAIN allEntities : TagClick(k))
           \/ (\E measured \in Layouts : ToggleFullscreen(measured) \/ WindowResize(measured))) =>
            /\ UNCHANGED <<graphData, hoverNode, activeNode, highlightNodes, highlightLinks,
                           camera>>
            /\ ModeIds' = ModeIds]_vars

\* a reload arrived in fullscreen while node A was active and hovered
C33_Witness ==
  /\ lastEvent = "fetchOk"
  /\ probe.kind = "viewport" /\ probe.fullscreen
  /\ activeNode.id = "A" /\ ~activeNode.cur
  /\ hoverNode.id = "A"

\* C34: ActiveCategorySet is a subset of the labels of the category groups and
\* holds no label twice; a label whose group disappears in a reload does not
\* stay in it.
C34_ActiveSubsetOfGroups ==
  /\ SetOf(activeEntities) \subseteq TagKeys
  /\ \A i, j \in DOMAIN activeEntities : activeEntities[i] = activeEntities[j] => i = j

\* the node with this id is displayed and passes the node filter
EndpointVisible(id) == \E i \in VisibleNodes : graphData.nodes[i].id = id

\* C35: (a) a visible edge has no invisible endpoint, and (b) every edge
\* whose two endpoints are visible nodes is visible.
C35_EdgeVisibleIffEndsVisible ==
  \A i \in DOMAIN graphData.links :
    (i \in VisibleLinks) <=>
      (EndpointVisible(graphData.links[i].source) /\ EndpointVisible(graphData.links[i].target))

\* the reference is a record of the displayed graph
DisplayedNode(r) == r.kind = "node" /\ r.cur /\ HasNode(graphData, r.id)
DisplayedLink(r) == r.cur /\ \E i \in DOMAIN graphData.links : graphData.links[i].id = r.id

\* C36: the active node, when defined, is a node record of the displayed
\* graph, every member of highlightedNodes is one, and every member of
\* highlightedLinks is an edge record of the displayed graph; also after a
\* reload that arrives while a node is active.
C36_ModeRefersToDisplayedGraph ==
  /\ activeNode # Undefined => DisplayedNode(activeNode)
  /\ \A r \in highlightNodes : r.kind = "node" => DisplayedNode(r)
  /\ \A r \in highlightLinks : DisplayedLink(r)

\* C37: the active node, when defined, passes the node filter.
C37_ActiveNodeVisible ==
  activeNode # Undefined =>
    \E i \in VisibleNodes : graphData.nodes[i].id = activeNode.id

\* every fetch has resolved
Settled == inflight = <<>>

\* C38: after a change of the collection id with a fetch in flight, once
\* every fetch has resolved the displayed graph and the groups are a response
\* of the current collection.
C38_SettledShowsCurrentCollection ==
  (Settled /\ collectionId # "" /\ lastEvent = "fetchOk") =>
    \E resp \in Responses(collectionId) :
      ShowsResponse(resp) /\ allEntities = GroupBy(AugmentNodes(resp))

====
